---- MODULE Spec2Model ----
(***************************************************************************)
(* The query answering pipeline of mut_chatgpt (views.py): the chat views  *)
(* chat_send_message, chat_session_create, guest_session_create,           *)
(* chat_session_detail, chat_session_delete and chat_session_rename, the   *)
(* retriever                                                               *)
(* search_knowledge_base, the generator generate_ai_response and the       *)
(* template responder generate_fallback_response, over the ChatSession,    *)
(* Message, SearchLog and SystemSettings tables of models.py.              *)
(*                                                                         *)
(* Spec handles the chat_send_message requests of every kind of caller    *)
(* one at a time; FairSpec adds a server that keeps running its handlers;  *)
(* SeqSpec is one owner sending message after message in one session;      *)
(* ConcSpec runs the owner's requests on one session concurrently, the     *)
(* handlers interleaving at their database operations; LookupSpec applies  *)
(* the retriever and the template responder to each of a set of queries    *)
(* on each of a set of stores.  SessionSpec adds the views that create,    *)
(* show, delete and rename sessions; TitleSpec sends first messages of     *)
(* lengths around the title limit; HistorySpec starts from a session that  *)
(* already holds turns; ComposeSpec sends one message from several tabs    *)
(* with the generation service answering.                                 *)
(*                                                                         *)
(* A text is a sequence of fragments.  A fragment is one character, except *)
(* that a fixed literal of a response template is kept whole as a single   *)
(* fragment.  Every text a user types and every field of a stored record   *)
(* is a sequence of characters.                                            *)
(***************************************************************************)
EXTENDS Integers, Sequences, FiniteSets, TLC

VARIABLES
    sessions,    \* ChatSession rows, indexed by id
    messages,    \* Message rows in created_at order
    searchLogs,  \* SearchLog rows in creation order
    settings,    \* SystemSettings rows: key -> value
    store,       \* the knowledge and reference tables
    calls,       \* chat_send_message requests: the locals of each one
    others,      \* the other session views' requests, in order
    lookup       \* a direct use of the retriever and the template responder

vars == <<sessions, messages, searchLogs, settings, store, calls, others, lookup>>

None == "None"

\* ---------------------------------------------------------------- bounds

\* chat_send_message requests of one behaviour of Spec.
MaxCalls == 2
\* chat_session_rename requests of one behaviour of ConcSpec.
MaxRenames == 1
\* chat_send_message requests of one behaviour of SeqSpec.
SeqCalls == 11
\* chat_send_message requests of one behaviour of ConcSpec.
ConcCalls == 2
\* Requests to the other session views in one behaviour of SessionSpec.
MaxViews == 2
\* chat_send_message requests of one behaviour of SessionSpec.
SessionCalls == 1
\* chat_send_message requests of one behaviour of TitleSpec.
TitleCalls == 2
\* chat_send_message requests of one behaviour of ComposeSpec.
ComposeCalls == 2

\* ------------------------------------------------------- program constants

\* views.py:406  [:10]
HistoryLimit == 10
\* views.py:309  user_message[:50]
TitleLimit == 50
\* views.py:359  [:5]
KnowledgeLimit == 5
\* views.py:365  [:3]
FaqLimit == 3
\* views.py:441
MaxTokens == 1024
\* views.py:447
StatusOk == 200

\* ------------------------------------------------------------------ texts

Whitespace == {" ", "\t", "\n"}

UpperCase == <<"A", "B", "C", "D", "E", "F", "G", "H", "I", "J", "K", "L", "M", "N", "O", "P", "Q", "R", "S", "T", "U", "V", "W", "X", "Y", "Z">>
LowerCase == <<"a", "b", "c", "d", "e", "f", "g", "h", "i", "j", "k", "l", "m", "n", "o", "p", "q", "r", "s", "t", "u", "v", "w", "x", "y", "z">>

\* str.lower() on one character.
LowerChar(ch) ==
    IF \E i \in 1..Len(UpperCase) : UpperCase[i] = ch
    THEN LowerCase[CHOOSE i \in 1..Len(UpperCase) : UpperCase[i] = ch]
    ELSE ch

\* str.lower()
Lower(s) == [i \in 1..Len(s) |-> LowerChar(s[i])]

\* A handler that forgets to strip the message.
NoStrip(s) == s

\* str.strip(): the text without its leading and trailing whitespace.
Strip(s) ==
    LET keep == {i \in 1..Len(s) : s[i] \notin Whitespace}
    IN IF keep = {} THEN <<>>
       ELSE LET lo == CHOOSE i \in keep : \A j \in keep : i <= j
                hi == CHOOSE i \in keep : \A j \in keep : j <= i
            IN SubSeq(s, lo, hi)

\* Python's `sub in s` on texts.
Contains(s, sub) ==
    \E i \in 0..(Len(s) - Len(sub)) :
        \A j \in 1..Len(sub) : s[i + j] = sub[j]

\* Django's __icontains lookup.
IContains(s, sub) == Contains(Lower(s), Lower(sub))

\* s[:n]
Prefix(s, n) == SubSeq(s, 1, IF Len(s) < n THEN Len(s) ELSE n)

\* A Python value returned by the generator: a str or None.
PyStr(t) == [type |-> "str", val |-> t]
PyNone == [type |-> "NoneType", val |-> <<>>]

\* ------------------------------------------------- knowledge store tables

\* Table rows in the shape seed_data writes them, most texts shortened, each
\* table in its default order.  The fees account and the main account of
\* seed_bank_accounts: one with a paybill, one without.
SampleBankAccounts == <<
    [bank_name |-> <<"E", "q", "u", "i", "t", "y", " ", "B", "a", "n", "k">>, account_name |-> <<"M", "u", "r", "a", "n", "g", "'", "a", " ", "U", "n", "i", "v", "e", "r", "s", "i", "t", "y", " ", "o", "f", " ", "T", "e", "c", "h", "n", "o", "l", "o", "g", "y">>,
     account_number |-> <<"0", "3", "6", "0", "2", "9", "1", "2", "3", "4", "5", "6", "7">>, paybill_number |-> <<"2", "4", "7", "2", "4", "7">>,
     is_active |-> TRUE],
    [bank_name |-> <<"K", "C", "B", " ", "B", "a", "n", "k">>, account_name |-> <<"M", "u", "r", "a", "n", "g", "'", "a", " ", "U", "n", "i", "v", "e", "r", "s", "i", "t", "y", " ", "o", "f", " ", "T", "e", "c", "h", "n", "o", "l", "o", "g", "y">>,
     account_number |-> <<"1", "2", "3", "4", "5", "6", "7", "8", "9", "0">>, paybill_number |-> <<>>,
     is_active |-> TRUE] >>

SampleExamInfo == <<
    [application_start_date |-> <<"2", "0", "2", "5", "-", "0", "1", "-", "0", "6">>, application_deadline |-> <<"2", "0", "2", "5", "-", "0", "1", "-", "2", "0">>,
     exam_start_date |-> <<"2", "0", "2", "5", "-", "0", "2", "-", "0", "3">>, exam_end_date |-> <<"2", "0", "2", "5", "-", "0", "2", "-", "1", "4">>,
     application_fee |-> <<"5", "0", "0", ".", "0", "0">>, requirements |-> <<"F", "e", "e", " ", "c", "l", "e", "a", "r", "a", "n", "c", "e">>,
     application_process |-> <<"A", "p", "p", "l", "y", " ", "o", "n", "l", "i", "n", "e">>, is_active |-> TRUE] >>

SampleOfficials == <<
    [position |-> <<"r", "e", "g", "i", "s", "t", "r", "a", "r">>, full_name |-> <<"D", "r", ".", " ", "S", ".", " ", "G", "i", "t", "h", "i", "n", "j", "i">>,
     position_title |-> <<"A", "c", "a", "d", "e", "m", "i", "c", " ", "R", "e", "g", "i", "s", "t", "r", "a", "r">>, email |-> <<"r", "e", "g", "i", "s", "t", "r", "a", "r", "@", "m", "u", "t", ".", "a", "c", ".", "k", "e">>,
     office_location |-> <<"A", "c", "a", "d", "e", "m", "i", "c", " ", "B", "l", "o", "c", "k">>, is_active |-> TRUE],
    [position |-> <<"v", "c">>, full_name |-> <<"P", "r", "o", "f", ".", " ", "J", ".", " ", "M", "w", "a", "u", "r", "a">>,
     position_title |-> <<"V", "i", "c", "e", " ", "C", "h", "a", "n", "c", "e", "l", "l", "o", "r">>, email |-> <<"v", "c", "@", "m", "u", "t", ".", "a", "c", ".", "k", "e">>,
     office_location |-> <<"A", "d", "m", "i", "n", "i", "s", "t", "r", "a", "t", "i", "o", "n", " ", "B", "l", "o", "c", "k">>, is_active |-> TRUE] >>

SampleKnowledge == <<
    [title |-> <<"F", "e", "e", "s">>, question |-> <<"H", "o", "w", " ", "d", "o", " ", "I", " ", "p", "a", "y", " ", "f", "e", "e", "s", "?">>,
     answer |-> <<"U", "s", "e", " ", "t", "h", "e", " ", "p", "a", "y", "b", "i", "l", "l", ".">>, keywords |-> <<"f", "e", "e", "s", ",", "p", "a", "y", "m", "e", "n", "t">>,
     priority |-> 10, updated_at |-> 1, is_active |-> TRUE] >>

SampleFaqs == <<
    [question |-> <<"W", "h", "e", "r", "e", " ", "i", "s", " ", "t", "h", "e", " ", "l", "i", "b", "r", "a", "r", "y", "?">>, answer |-> <<"N", "e", "x", "t", " ", "t", "o", " ", "t", "h", "e", " ", "g", "a", "t", "e", ".">>,
     order |-> 1, views_count |-> 0, is_active |-> TRUE] >>

\* A populated knowledge store.
SampleStore ==
    [knowledge |-> SampleKnowledge, faqs |-> SampleFaqs,
     financial_info |-> <<>>, bank_accounts |-> SampleBankAccounts,
     exam_info |-> SampleExamInfo, academic_years |-> <<>>,
     discontinuation |-> <<>>, officials |-> SampleOfficials, offices |-> <<>>]

\* A store for ranking: six active knowledge rows that hold "fee" in their
\* question, five of them of one priority; a retired row of the highest
\* priority; a row that holds "hostel" in its title only.  Rows are in
\* insertion order, updated_at growing with it.
RankedKnowledge == <<
    [title |-> <<"F", "e", "e", " ", "1">>, question |-> <<"F", "e", "e", " ", "o", "n", "e", "?">>, answer |-> <<"P", "a", "y", " ", "a", "t", " ", "t", "h", "e", " ", "b", "a", "n", "k", ".">>,
     keywords |-> <<"m", "o", "n", "e", "y">>, priority |-> 9, updated_at |-> 1, is_active |-> TRUE],
    [title |-> <<"F", "e", "e", " ", "2">>, question |-> <<"F", "e", "e", " ", "t", "w", "o", "?">>, answer |-> <<"U", "s", "e", " ", "t", "h", "e", " ", "p", "a", "y", "b", "i", "l", "l", ".">>,
     keywords |-> <<"m", "o", "n", "e", "y">>, priority |-> 5, updated_at |-> 2, is_active |-> TRUE],
    [title |-> <<"F", "e", "e", " ", "3">>, question |-> <<"F", "e", "e", " ", "t", "h", "r", "e", "e", "?">>, answer |-> <<"A", "s", "k", " ", "f", "i", "n", "a", "n", "c", "e", ".">>,
     keywords |-> <<"m", "o", "n", "e", "y">>, priority |-> 5, updated_at |-> 3, is_active |-> TRUE],
    [title |-> <<"F", "e", "e", " ", "4">>, question |-> <<"F", "e", "e", " ", "f", "o", "u", "r", "?">>, answer |-> <<"S", "e", "e", " ", "t", "h", "e", " ", "p", "o", "r", "t", "a", "l", ".">>,
     keywords |-> <<"m", "o", "n", "e", "y">>, priority |-> 5, updated_at |-> 4, is_active |-> TRUE],
    [title |-> <<"F", "e", "e", " ", "5">>, question |-> <<"F", "e", "e", " ", "f", "i", "v", "e", "?">>, answer |-> <<"I", "n", " ", "t", "w", "o", " ", "p", "a", "r", "t", "s", ".">>,
     keywords |-> <<"m", "o", "n", "e", "y">>, priority |-> 5, updated_at |-> 5, is_active |-> TRUE],
    [title |-> <<"F", "e", "e", " ", "6">>, question |-> <<"F", "e", "e", " ", "s", "i", "x", "?">>, answer |-> <<"B", "y", " ", "w", "e", "e", "k", " ", "t", "w", "o", ".">>,
     keywords |-> <<"m", "o", "n", "e", "y">>, priority |-> 5, updated_at |-> 6, is_active |-> TRUE],
    [title |-> <<"F", "e", "e", " ", "0">>, question |-> <<"F", "e", "e", " ", "t", "h", "e", "n", "?">>, answer |-> <<"P", "a", "y", " ", "i", "n", " ", "c", "a", "s", "h", ".">>,
     keywords |-> <<"m", "o", "n", "e", "y">>, priority |-> 10, updated_at |-> 7, is_active |-> FALSE],
    [title |-> <<"H", "o", "s", "t", "e", "l">>, question |-> <<"R", "o", "o", "m", "s", "?">>, answer |-> <<"A", "s", "k", " ", "t", "h", "e", " ", "w", "a", "r", "d", "e", "n", ".">>,
     keywords |-> <<"b", "e", "d", ",", "S", "P", "O", "R", "T">>, priority |-> 1, updated_at |-> 8, is_active |-> TRUE] >>

\* Five active FAQs that hold "fee" in their question, two of them equal in
\* order and views_count, and a retired one of the lowest order.
RankedFaqs == <<
    [question |-> <<"F", "e", "e", " ", "d", "e", "a", "d", "l", "i", "n", "e", "?">>, answer |-> <<"W", "e", "e", "k", " ", "t", "w", "o", ".">>,
     order |-> 2, views_count |-> 0, is_active |-> TRUE],
    [question |-> <<"F", "e", "e", " ", "w", "a", "i", "v", "e", "r", "?">>, answer |-> <<"A", "s", "k", " ", "t", "h", "e", " ", "d", "e", "a", "n", ".">>,
     order |-> 1, views_count |-> 5, is_active |-> TRUE],
    [question |-> <<"F", "e", "e", " ", "r", "e", "f", "u", "n", "d", "?">>, answer |-> <<"S", "e", "e", " ", "t", "h", "e", " ", "p", "o", "l", "i", "c", "y", ".">>,
     order |-> 1, views_count |-> 5, is_active |-> TRUE],
    [question |-> <<"F", "e", "e", " ", "b", "a", "l", "a", "n", "c", "e", "?">>, answer |-> <<"O", "n", " ", "t", "h", "e", " ", "p", "o", "r", "t", "a", "l", ".">>,
     order |-> 1, views_count |-> 9, is_active |-> TRUE],
    [question |-> <<"F", "e", "e", " ", "r", "e", "c", "e", "i", "p", "t", "?">>, answer |-> <<"A", "t", " ", "t", "h", "e", " ", "d", "e", "s", "k", ".">>,
     order |-> 0, views_count |-> 0, is_active |-> FALSE],
    [question |-> <<"F", "e", "e", " ", "l", "o", "a", "n", "?">>, answer |-> <<"F", "r", "o", "m", " ", "H", "E", "L", "B", ".">>,
     order |-> 3, views_count |-> 0, is_active |-> TRUE] >>

\* The three accounts of seed_bank_accounts and a closed one.
SeededBankAccounts == <<
    [bank_name |-> <<"E", "q", "u", "i", "t", "y", " ", "B", "a", "n", "k">>, account_name |-> <<"M", "u", "r", "a", "n", "g", "'", "a", " ", "U", "n", "i", "v", "e", "r", "s", "i", "t", "y", " ", "o", "f", " ", "T", "e", "c", "h", "n", "o", "l", "o", "g", "y">>,
     account_number |-> <<"0", "3", "6", "0", "2", "9", "1", "2", "3", "4", "5", "6", "7">>, paybill_number |-> <<"2", "4", "7", "2", "4", "7">>,
     is_active |-> TRUE],
    [bank_name |-> <<"C", "o", "-", "o", "p", "e", "r", "a", "t", "i", "v", "e", " ", "B", "a", "n", "k">>, account_name |-> <<"M", "U", "T", " ", "A", "c", "c", "o", "m", "m", "o", "d", "a", "t", "i", "o", "n", " ", "A", "c", "c", "o", "u", "n", "t">>,
     account_number |-> <<"0", "1", "1", "2", "9", "1", "2", "3", "4", "5", "6", "7", "8", "9">>, paybill_number |-> <<"4", "0", "0", "2", "0", "0">>,
     is_active |-> TRUE],
    [bank_name |-> <<"K", "C", "B", " ", "B", "a", "n", "k">>, account_name |-> <<"M", "u", "r", "a", "n", "g", "'", "a", " ", "U", "n", "i", "v", "e", "r", "s", "i", "t", "y", " ", "o", "f", " ", "T", "e", "c", "h", "n", "o", "l", "o", "g", "y">>,
     account_number |-> <<"1", "2", "3", "4", "5", "6", "7", "8", "9", "0">>, paybill_number |-> <<>>,
     is_active |-> TRUE],
    [bank_name |-> <<"O", "l", "d", " ", "B", "a", "n", "k">>, account_name |-> <<"M", "U", "T">>,
     account_number |-> <<"0", "0", "0">>, paybill_number |-> <<"1", "1", "1", "1", "1", "1">>,
     is_active |-> FALSE] >>

ClosedBankAccounts == SubSeq(SeededBankAccounts, 4, 4)

PastExamInfo == <<
    [application_start_date |-> <<"2", "0", "2", "4", "-", "0", "1", "-", "0", "8">>, application_deadline |-> <<"2", "0", "2", "4", "-", "0", "1", "-", "2", "2">>,
     exam_start_date |-> <<"2", "0", "2", "4", "-", "0", "2", "-", "0", "5">>, exam_end_date |-> <<"2", "0", "2", "4", "-", "0", "2", "-", "1", "6">>,
     application_fee |-> <<"4", "0", "0", ".", "0", "0">>, requirements |-> <<"F", "e", "e", " ", "c", "l", "e", "a", "r", "a", "n", "c", "e">>,
     application_process |-> <<"A", "p", "p", "l", "y", " ", "o", "n", "l", "i", "n", "e">>, is_active |-> FALSE] >>

\* Officials in Meta order: a retired vice chancellor, the registrar, the
\* vice chancellor and a second row with position vc.
RankedOfficials == <<
    [position |-> <<"v", "c">>, full_name |-> <<"P", "r", "o", "f", ".", " ", "P", ".", " ", "P", "a", "s", "t">>,
     position_title |-> <<"V", "i", "c", "e", " ", "C", "h", "a", "n", "c", "e", "l", "l", "o", "r">>, email |-> <<"p", "a", "s", "t", "@", "m", "u", "t", ".", "a", "c", ".", "k", "e">>,
     office_location |-> <<"A", "d", "m", "i", "n", "i", "s", "t", "r", "a", "t", "i", "o", "n", " ", "B", "l", "o", "c", "k">>, is_active |-> FALSE] >>
    \o SampleOfficials \o <<
    [position |-> <<"v", "c">>, full_name |-> <<"P", "r", "o", "f", ".", " ", "A", ".", " ", "A", "c", "t", "i", "n", "g">>,
     position_title |-> <<"A", "c", "t", "i", "n", "g", " ", "V", "i", "c", "e", " ", "C", "h", "a", "n", "c", "e", "l", "l", "o", "r">>, email |-> <<"a", "v", "c", "@", "m", "u", "t", ".", "a", "c", ".", "k", "e">>,
     office_location |-> <<"A", "d", "m", "i", "n", "i", "s", "t", "r", "a", "t", "i", "o", "n", " ", "B", "l", "o", "c", "k">>, is_active |-> TRUE] >>

SampleFinancialInfo == <<
    [payment_type |-> <<"t", "u", "i", "t", "i", "o", "n">>, amount |-> <<"4", "5", "0", "0", "0", ".", "0", "0">>, is_active |-> TRUE],
    [payment_type |-> <<"t", "u", "i", "t", "i", "o", "n">>, amount |-> <<"4", "0", "0", "0", "0", ".", "0", "0">>, is_active |-> FALSE] >>

SampleAcademicYears == <<
    [year |-> <<"2", "0", "2", "4", "/", "2", "0", "2", "5">>, is_active |-> TRUE],
    [year |-> <<"2", "0", "2", "3", "/", "2", "0", "2", "4">>, is_active |-> FALSE] >>

SampleDiscontinuation == <<
    [title |-> <<"D", "e", "f", "e", "r", "m", "e", "n", "t">>, is_active |-> TRUE],
    [title |-> <<"O", "l", "d", " ", "p", "r", "o", "c", "e", "d", "u", "r", "e">>, is_active |-> FALSE] >>

SampleOffices == <<
    [name |-> <<"F", "i", "n", "a", "n", "c", "e", " ", "O", "f", "f", "i", "c", "e">>, building |-> <<"A", "d", "m", "i", "n", "i", "s", "t", "r", "a", "t", "i", "o", "n", " ", "B", "l", "o", "c", "k">>, is_active |-> TRUE],
    [name |-> <<"O", "l", "d", " ", "R", "e", "g", "i", "s", "t", "r", "y">>, building |-> <<"B", "l", "o", "c", "k", " ", "A">>, is_active |-> FALSE] >>

\* A store with rows, active and retired, in every table.
RankedStore ==
    [knowledge |-> RankedKnowledge, faqs |-> RankedFaqs,
     financial_info |-> SampleFinancialInfo, bank_accounts |-> SeededBankAccounts,
     exam_info |-> PastExamInfo \o SampleExamInfo,
     academic_years |-> SampleAcademicYears,
     discontinuation |-> SampleDiscontinuation,
     officials |-> RankedOfficials, offices |-> SampleOffices]

\* RankedStore after every bank account was closed.
NoBankStore == [RankedStore EXCEPT !.bank_accounts = ClosedBankAccounts]

\* A store without an active bank account, an exam record or a vice
\* chancellor.
BareStore ==
    [SampleStore EXCEPT !.bank_accounts = ClosedBankAccounts,
                        !.exam_info = PastExamInfo,
                        !.officials = SubSeq(SampleOfficials, 1, 1)]

Stores == {SampleStore, RankedStore, NoBankStore, BareStore}

\* -------------------------------------------------------------- retriever

\* A retriever that forgets the is_active filter of the reference tables.
AllRows(rows) == rows

\* QuerySet.filter(is_active=True) on a table, rows kept in order.
ActiveRows(rows) == SelectSeq(rows, LAMBDA r : r.is_active)

\* A retriever that tests the first word of each topic only.
FirstWordIn(query_lower, words) == Contains(query_lower, words[1])

\* any(word in query_lower for word in words)
AnyWordIn(query_lower, words) ==
    \E i \in 1..Len(words) : Contains(query_lower, words[i])

FeeWords == << <<"f", "e", "e">>, <<"p", "a", "y", "m", "e", "n", "t">>, <<"c", "o", "s", "t">>, <<"p", "a", "y">>, <<"t", "u", "i", "t", "i", "o", "n">> >>
ExamWords == << <<"e", "x", "a", "m">>, <<"s", "u", "p", "p", "l", "e", "m", "e", "n", "t", "a", "r", "y">>, <<"s", "u", "p">>, <<"t", "e", "s", "t">> >>
AcademicYearWords == << <<"a", "c", "a", "d", "e", "m", "i", "c", " ", "y", "e", "a", "r">>, <<"s", "e", "m", "e", "s", "t", "e", "r">>, <<"r", "e", "g", "i", "s", "t", "r", "a", "t", "i", "o", "n">> >>
DiscontinuationWords == << <<"d", "i", "s", "c", "o", "n", "t", "i", "n", "u", "e">>, <<"w", "i", "t", "h", "d", "r", "a", "w">>, <<"l", "e", "a", "v", "e">>, <<"d", "e", "f", "e", "r">> >>
OfficialWords == << <<"v", "c">>, <<"v", "i", "c", "e", " ", "c", "h", "a", "n", "c", "e", "l", "l", "o", "r">>, <<"d", "e", "a", "n">>, <<"r", "e", "g", "i", "s", "t", "r", "a", "r">>, <<"h", "o", "d">> >>
OfficeWords == << <<"o", "f", "f", "i", "c", "e">>, <<"l", "o", "c", "a", "t", "i", "o", "n">>, <<"w", "h", "e", "r", "e", " ", "i", "s">>, <<"f", "i", "n", "d">> >>

\* A filter that searches the title as well.
KnowledgeMatchesWithTitle(st, query) ==
    {i \in 1..Len(st.knowledge) :
        /\ st.knowledge[i].is_active
        /\ \/ IContains(st.knowledge[i].title, query)
           \/ IContains(st.knowledge[i].question, query)
           \/ IContains(st.knowledge[i].answer, query)
           \/ IContains(st.knowledge[i].keywords, query)}

\* The KnowledgeBase rows the filter of views.py:354-358 keeps.
KnowledgeMatches(st, query) ==
    {i \in 1..Len(st.knowledge) :
        /\ st.knowledge[i].is_active
        /\ \/ IContains(st.knowledge[i].question, query)
           \/ IContains(st.knowledge[i].answer, query)
           \/ IContains(st.knowledge[i].keywords, query)}

\* The FAQ rows the filter of views.py:362-365 keeps.
FaqMatches(st, query) ==
    {i \in 1..Len(st.faqs) :
        /\ st.faqs[i].is_active
        /\ \/ IContains(st.faqs[i].question, query)
           \/ IContains(st.faqs[i].answer, query)}

\* A database that returns the rows in any order, whatever the sort.
AnyOrder(rows, before) ==
    {s \in [1..Cardinality(rows) -> rows] :
        \A i, j \in 1..Cardinality(rows) : i # j => s[i] # s[j]}

\* The orders in which a database may return the rows `rows` under a sort
\* that puts i before j whenever <<i, j>> \in before; rows the sort does not
\* tell apart come in any order.
Orderings(rows, before) ==
    {s \in [1..Cardinality(rows) -> rows] :
        /\ \A i, j \in 1..Cardinality(rows) : i # j => s[i] # s[j]
        /\ \A i, j \in 1..Cardinality(rows) : i < j => <<s[j], s[i]>> \notin before}

\* order_by('-priority')[:5], as {'question', 'answer'} dicts.
KnowledgeResults(st, query) ==
    LET matches == KnowledgeMatches(st, query)
        byPriority == {p \in matches \X matches :
                          st.knowledge[p[1]].priority > st.knowledge[p[2]].priority}
    IN {[k \in 1..Len(Prefix(s, KnowledgeLimit)) |->
            [question |-> st.knowledge[s[k]].question,
             answer |-> st.knowledge[s[k]].answer]] :
        s \in Orderings(matches, byPriority)}

\* FAQ.Meta.ordering ['order', '-views_count'], then [:3].
FaqResults(st, query) ==
    LET matches == FaqMatches(st, query)
        byMeta == {p \in matches \X matches :
                      \/ st.faqs[p[1]].order < st.faqs[p[2]].order
                      \/ /\ st.faqs[p[1]].order = st.faqs[p[2]].order
                         /\ st.faqs[p[1]].views_count > st.faqs[p[2]].views_count}
    IN {[k \in 1..Len(Prefix(s, FaqLimit)) |->
            [question |-> st.faqs[s[k]].question,
             answer |-> st.faqs[s[k]].answer]] :
        s \in Orderings(matches, byMeta)}

\* The lists a query without ORDER BY can return for the rows `rows`: the
\* rows in any order.
Unordered(rows) ==
    {[k \in 1..Len(rows) |-> rows[s[k]]] : s \in Orderings(1..Len(rows), {})}

\* What the reference tables of st can be read as.  FinancialInformation,
\* BankAccount, ExamInformation, Discontinuation and OfficeLocation have no
\* Meta.ordering; AcademicYear and UniversityOfficial have one, and their
\* rows are kept in it.
TableReads(st) ==
    {[st EXCEPT !.financial_info = fi, !.bank_accounts = ba, !.exam_info = ex,
                !.discontinuation = di, !.offices = loc] :
        fi \in Unordered(ActiveRows(st.financial_info)),
        ba \in Unordered(ActiveRows(st.bank_accounts)),
        ex \in Unordered(ActiveRows(st.exam_info)),
        di \in Unordered(ActiveRows(st.discontinuation)),
        loc \in Unordered(ActiveRows(st.offices))}

NoKeys == [k \in {} |-> <<>>]

\* The context dict for given knowledge and FAQ results and a given read st
\* of the reference tables: the two lists and one key per triggered topic.
TopicContext(st, query, kb_results, faq_results) ==
    LET query_lower == Lower(query)
    IN [knowledge_base |-> kb_results, faqs |-> faq_results]
       @@ (IF AnyWordIn(query_lower, FeeWords)
           THEN [financial_info |-> ActiveRows(st.financial_info),
                 bank_accounts |-> ActiveRows(st.bank_accounts)]
           ELSE NoKeys)
       @@ (IF AnyWordIn(query_lower, ExamWords)
           THEN [exam_info |-> ActiveRows(st.exam_info)] ELSE NoKeys)
       @@ (IF AnyWordIn(query_lower, AcademicYearWords)
           THEN [academic_years |-> ActiveRows(st.academic_years)] ELSE NoKeys)
       @@ (IF AnyWordIn(query_lower, DiscontinuationWords)
           THEN [discontinuation |-> ActiveRows(st.discontinuation)] ELSE NoKeys)
       @@ (IF AnyWordIn(query_lower, OfficialWords)
           THEN [officials |-> ActiveRows(st.officials)] ELSE NoKeys)
       @@ (IF AnyWordIn(query_lower, OfficeWords)
           THEN [offices |-> ActiveRows(st.offices)] ELSE NoKeys)

\* The contexts search_knowledge_base(query) can return on the tables st.
search_knowledge_base(st, query) ==
    {TopicContext(read, query, kb_results, faq_results) :
        read \in TableReads(st),
        kb_results \in KnowledgeResults(st, query),
        faq_results \in FaqResults(st, query)}

\* context.get(key): truthy only for a present, non-empty list.
Truthy(context, key) == key \in DOMAIN context /\ context[key] # <<>>

\* -------------------------------------------------- template responder

FeesTemplate(bank) ==
    <<"To pay school fees, use the following account details:\n\nBank: ">>
    \o bank.bank_name \o <<"\nAccount Name: ">> \o bank.account_name
    \o <<"\nAccount Number: ">> \o bank.account_number
    \o <<"\nPaybill: ">> \o bank.paybill_number
    \o <<"\n\nFor M-Pesa payments:\n1. Go to M-Pesa menu\n2. Select Lipa na M-Pesa\n3. Select Paybill\n4. Enter Paybill number: ">>
    \o bank.paybill_number
    \o <<"\n5. Enter your Student ID as account number\n6. Enter amount\n7. Enter your M-Pesa PIN\n\nFor more information, visit the Finance Office.">>

ExamTemplate(exam) ==
    <<"Supplementary Exam Information:\n\nApplication Period: ">>
    \o exam.application_start_date \o <<" to ">> \o exam.application_deadline
    \o <<"\nExam Period: ">> \o exam.exam_start_date \o <<" to ">> \o exam.exam_end_date
    \o <<"\nApplication Fee: KES ">> \o exam.application_fee
    \o <<"\n\nRequirements:\n">> \o exam.requirements
    \o <<"\n\nApplication Process:\n">> \o exam.application_process

OfficialTemplate(official) ==
    <<"The Vice Chancellor of Murang'a University of Technology is ">>
    \o official.full_name \o <<".\n\nPosition: ">> \o official.position_title
    \o <<"\nEmail: ">> \o official.email \o <<"\nOffice: ">> \o official.office_location

DefaultResponse ==
    <<"I'm here to help you with information about Murang'a University of Technology. \n\nI can assist with:\n- School fees and payment information\n- Exam schedules and supplementary exams\n- Academic calendar and registration dates\n- Discontinuation procedures\n- University officials and contacts\n- Office locations\n\nWhat would you like to know?">>

\* A responder that tries the exam rule before the fees rule.
fallback_exam_first(query, context) ==
    LET query_lower == Lower(query)
        fees == /\ Contains(query_lower, <<"f", "e", "e">>) \/ Contains(query_lower, <<"p", "a", "y", "m", "e", "n", "t">>)
                /\ Truthy(context, "bank_accounts")
        exams == /\ Contains(query_lower, <<"e", "x", "a", "m">>) \/ Contains(query_lower, <<"s", "u", "p", "p", "l", "e", "m", "e", "n", "t", "a", "r", "y">>)
                 /\ Truthy(context, "exam_info")
    IN IF exams THEN ExamTemplate(context["exam_info"][1])
       ELSE IF fees THEN FeesTemplate(context["bank_accounts"][1])
       ELSE DefaultResponse

\* A responder that stops, with nothing to say, at the first rule whose
\* word is in the query, with or without a record for it.
fallback_first_rule_only(query, context) ==
    LET query_lower == Lower(query)
    IN IF Contains(query_lower, <<"f", "e", "e">>) \/ Contains(query_lower, <<"p", "a", "y", "m", "e", "n", "t">>)
       THEN IF Truthy(context, "bank_accounts")
            THEN FeesTemplate(context["bank_accounts"][1]) ELSE <<>>
       ELSE IF Contains(query_lower, <<"e", "x", "a", "m">>) \/ Contains(query_lower, <<"s", "u", "p", "p", "l", "e", "m", "e", "n", "t", "a", "r", "y">>)
       THEN IF Truthy(context, "exam_info")
            THEN ExamTemplate(context["exam_info"][1]) ELSE <<>>
       ELSE DefaultResponse

generate_fallback_response(query, context) ==
    LET query_lower == Lower(query)
        fees == /\ Contains(query_lower, <<"f", "e", "e">>) \/ Contains(query_lower, <<"p", "a", "y", "m", "e", "n", "t">>)
                /\ Truthy(context, "bank_accounts")
        exams == /\ Contains(query_lower, <<"e", "x", "a", "m">>) \/ Contains(query_lower, <<"s", "u", "p", "p", "l", "e", "m", "e", "n", "t", "a", "r", "y">>)
                 /\ Truthy(context, "exam_info")
        vcs == IF /\ Contains(query_lower, <<"v", "c">>) \/ Contains(query_lower, <<"v", "i", "c", "e", " ", "c", "h", "a", "n", "c", "e", "l", "l", "o", "r">>)
                  /\ Truthy(context, "officials")
               THEN SelectSeq(context["officials"], LAMBDA o : o.position = <<"v", "c">>)
               ELSE <<>>
    IN IF fees THEN FeesTemplate(context["bank_accounts"][1])
       ELSE IF exams THEN ExamTemplate(context["exam_info"][1])
       ELSE IF vcs # <<>> THEN OfficialTemplate(vcs[1])
       ELSE DefaultResponse

\* --------------------------------------------------------------- generator

ApologyStatus ==
    <<"I apologize, but I'm having trouble processing your request right now. Please try again.">>

ApologyException ==
    <<"I apologize for the inconvenience. Please contact the IT support office for assistance.">>

ApiKeyName == "ANTHROPIC_API_KEY"

\* The settings table seed_system_settings leaves, and one without the key.
SeededSettings == [k \in {ApiKeyName} |-> <<"y", "o", "u", "r", "-", "a", "p", "i", "-", "k", "e", "y", "-", "h", "e", "r", "e">>]
NoSettings == [k \in {} |-> <<>>]

\* How a requests.post call can end.  raised: the call raised (connection
\* error, timeout at the socket); otherwise a response with a status and a
\* body: "text" (JSON whose content[0].text is the string `text`),
\* "null_text" (JSON whose content[0].text is null), "malformed" (not JSON,
\* or JSON without content[0].text).
ReplyText == <<"P", "a", "y", " ", "v", "i", "a", " ", "p", "a", "y", "b", "i", "l", "l", ".">>

ServiceOutcomes ==
    { [raised |-> FALSE, status |-> StatusOk, body |-> "text", text |-> ReplyText],
      [raised |-> FALSE, status |-> StatusOk, body |-> "null_text", text |-> <<>>],
      [raised |-> FALSE, status |-> StatusOk, body |-> "malformed", text |-> <<>>],
      [raised |-> FALSE, status |-> 500, body |-> "malformed", text |-> <<>>],
      [raised |-> TRUE, status |-> 0, body |-> "malformed", text |-> <<>>] }

\* No requests.post call has ended.
NoOutcome == [raised |-> FALSE, status |-> 0, body |-> "none", text |-> <<>>]

\* previous_messages: the session's messages by created_at, cut by [:10],
\* as {"role", "content"} dicts.
HistorySlice(rows) == Prefix(rows, HistoryLimit)

\* A history query without the session filter.
conversation_history_all(msgs, sid) ==
    LET rows == HistorySlice(msgs)
    IN [i \in 1..Len(rows) |-> [role |-> rows[i].role, content |-> rows[i].content]]

conversation_history(msgs, sid) ==
    LET rows == HistorySlice(SelectSeq(msgs, LAMBDA m : m.session = sid))
    IN [i \in 1..Len(rows) |-> [role |-> rows[i].role, content |-> rows[i].content]]

\* The f-string of views.py:413-426; json.dumps(context) is kept as the
\* context it serializes.
system_prompt(context) ==
    [head |-> "You are MUT AI, an intelligent assistant for Murang'a University of Technology.",
     available_information |-> context,
     guidelines |-> "Be helpful, accurate, and concise"]

\* A composer that stamps the prompt with the number of requests sent so far.
RequestBodyStamped(query, context, history) ==
    [model |-> "claude-sonnet-4-20250514", max_tokens |-> MaxTokens,
     system |-> [head |-> "You are MUT AI, an intelligent assistant for Murang'a University of Technology.",
                 available_information |-> context,
                 guidelines |-> "Be helpful, accurate, and concise",
                 stamp |-> Cardinality({c \in DOMAIN calls : calls[c].requests > 0})],
     messages |-> history \o <<[role |-> "user", content |-> query]>>]

\* The JSON body of the request to the generation service.
RequestBody(query, context, history) ==
    [model |-> "claude-sonnet-4-20250514", max_tokens |-> MaxTokens,
     system |-> system_prompt(context),
     messages |-> history \o <<[role |-> "user", content |-> query]>>]

\* A generator that treats the missing credential like any other exception.
MissingKeyApology(query, context) == PyStr(ApologyException)

\* What generate_ai_response returns when no ANTHROPIC_API_KEY row exists.
MissingKeyResponse(query, context) == PyStr(generate_fallback_response(query, context))

\* What generate_ai_response returns once requests.post ended with `outcome`.
ReplyResponse(outcome) ==
    IF outcome.raised THEN PyStr(ApologyException)
    ELSE IF outcome.status = StatusOk
         THEN CASE outcome.body = "text" -> PyStr(outcome.text)
                [] outcome.body = "null_text" -> PyNone
                [] OTHER -> PyStr(ApologyException)
         ELSE PyStr(ApologyStatus)

\* ------------------------------------------------------------ sessions

NewChat == <<"N", "e", "w", " ", "C", "h", "a", "t">>
NewGuestChat == <<"N", "e", "w", " ", "G", "u", "e", "s", "t", " ", "C", "h", "a", "t">>

Users == {"u1", "u2"}
Tokens == {"t1", "t2"}

\* A request's identity: request.user (None: not authenticated) and the
\* guest_session_token cookie (None: no cookie).
Callers ==
    [user : Users, cookie : {None}] \cup [user : {None}, cookie : Tokens \cup {None}]

NoRow == [user |-> None, session_token |-> None, title |-> <<>>, is_active |-> FALSE]

\* session.user != request.user, or session.session_token != cookie: the
\* "Verify access" block every session view repeats.
AccessDenied(caller, session) ==
    IF caller.user # None
    THEN session.user # caller.user
    ELSE session.session_token # caller.cookie

\* A title cut to 50 characters without the ellipsis.
AutoTitleNoEllipsis(user_message) == Prefix(user_message, TitleLimit)

\* user_message[:50] + ('...' if len(user_message) > 50 else '')
AutoTitle(user_message) ==
    Prefix(user_message, TitleLimit)
    \o (IF Len(user_message) > TitleLimit THEN <<".", ".", ".">> ELSE <<>>)

\* session.messages.filter(role='user').count()
UserMessageCount(msgs, sid) ==
    Len(SelectSeq(msgs, LAMBDA m : m.session = sid /\ m.role = "user"))

\* ------------------------------------------------------ chat_send_message

NewCall(caller, sid, raw) ==
    [caller |-> caller, sid |-> sid, raw |-> raw, user_message |-> Strip(raw),
     pc |-> "start", session |-> NoRow, context |-> NoKeys, history |-> <<>>,
     sent |-> <<>>, requests |-> 0, outcome |-> NoOutcome, response |-> PyStr(<<>>),
     result |-> None, fault |-> FALSE]

\* The call ends: its locals are dropped, its result is the HTTP response.
\* What stays is the request, the result, the number of requests it sent to
\* the generation service and whether a database operation of it raised.
Finish(call, result) ==
    [call EXCEPT !.pc = "done", !.result = result, !.session = NoRow,
                 !.context = NoKeys, !.history = <<>>, !.sent = <<>>,
                 !.outcome = NoOutcome, !.response = PyStr(<<>>)]

InFlight(c) == calls[c].pc # "done"

\* views.py:254-273: parse, strip, the empty check, the session lookup and
\* the ownership check.
Validate(caller, sid, raw) ==
    LET call == NewCall(caller, sid, raw)
        found == sid \in DOMAIN sessions /\ sessions[sid].is_active
    IN /\ calls' = Append(calls,
            IF call.user_message = <<>> THEN Finish(call, "EmptyMessage")
            ELSE IF ~found THEN Finish(call, "SessionNotFound")
            ELSE IF AccessDenied(caller, sessions[sid]) THEN Finish(call, "Unauthorized")
            ELSE [call EXCEPT !.pc = "save_user", !.session = sessions[sid]])
       /\ UNCHANGED <<sessions, messages, searchLogs, settings, store, others, lookup>>

\* views.py:276-280
SaveUserMessage(c) ==
    /\ calls[c].pc = "save_user"
    /\ messages' = Append(messages,
            [session |-> calls[c].sid, role |-> "user",
             content |-> calls[c].user_message, call |-> c])
    /\ calls' = [calls EXCEPT ![c].pc = "log_search"]
    /\ UNCHANGED <<sessions, searchLogs, settings, store, others, lookup>>

\* views.py:283-287
LogSearch(c) ==
    /\ calls[c].pc = "log_search"
    /\ searchLogs' = Append(searchLogs,
            [user |-> calls[c].caller.user, session |-> calls[c].sid,
             query |-> calls[c].user_message, call |-> c])
    /\ calls' = [calls EXCEPT ![c].pc = "generate"]
    /\ UNCHANGED <<sessions, messages, settings, store, others, lookup>>

\* views.py:290-293 up to the return of requests.post: the retrieval, the
\* history query, the prompt, the credential lookup and, with a credential,
\* the request to the generation service.
Generate(c) ==
    /\ calls[c].pc = "generate"
    /\ \E context \in search_knowledge_base(store, calls[c].user_message) :
        LET history == conversation_history(messages, calls[c].sid)
            query == calls[c].user_message
        IN calls' = [calls EXCEPT ![c] =
              IF ApiKeyName \in DOMAIN settings
              THEN [@ EXCEPT !.pc = "waiting", !.context = context, !.history = history,
                             !.sent = Append(@, RequestBody(query, context, history)),
                             !.requests = @ + 1]
              ELSE [@ EXCEPT !.pc = "save_assistant", !.context = context,
                             !.history = history,
                             !.response = MissingKeyResponse(query, context)]]
    /\ UNCHANGED <<sessions, messages, searchLogs, settings, store, others, lookup>>

\* A generator that sends the request again after a failure.
ServiceReplyWithRetry(c, outcome) ==
    /\ calls[c].pc = "waiting"
    /\ calls' = [calls EXCEPT ![c] =
            IF (outcome.raised \/ outcome.status # StatusOk) /\ @.requests < 2
            THEN [@ EXCEPT !.sent = Append(@, @[1]), !.requests = @ + 1]
            ELSE [@ EXCEPT !.pc = "save_assistant", !.outcome = outcome,
                           !.response = ReplyResponse(outcome)]]
    /\ UNCHANGED <<sessions, messages, searchLogs, settings, store, others, lookup>>

\* views.py:432-457: requests.post returns or raises.
ServiceReply(c, outcome) ==
    /\ calls[c].pc = "waiting"
    /\ calls' = [calls EXCEPT ![c].pc = "save_assistant",
                              ![c].outcome = outcome,
                              ![c].response = ReplyResponse(outcome)]
    /\ UNCHANGED <<sessions, messages, searchLogs, settings, store, others, lookup>>

\* A handler whose assistant turn gets a timestamp before the user turn's.
SaveAssistantMessageFirst(c) ==
    /\ calls[c].pc = "save_assistant"
    /\ calls[c].response.type = "str"
    /\ messages' = <<[session |-> calls[c].sid, role |-> "assistant",
                      content |-> calls[c].response.val, call |-> c]>> \o messages
    /\ calls' = [calls EXCEPT ![c].pc = "count_user"]
    /\ UNCHANGED <<sessions, searchLogs, settings, store, others, lookup>>

\* views.py:296-302; Message.content is a TextField without null=True, so a
\* None content raises IntegrityError, which views.py:330-331 turns into the
\* 500 response.
SaveAssistantMessage(c) ==
    /\ calls[c].pc = "save_assistant"
    /\ IF calls[c].response.type = "str"
       THEN /\ messages' = Append(messages,
                    [session |-> calls[c].sid, role |-> "assistant",
                     content |-> calls[c].response.val, call |-> c])
            /\ calls' = [calls EXCEPT ![c].pc = "count_user"]
       ELSE /\ calls' = [calls EXCEPT ![c] = Finish(@, "ServerError")]
            /\ UNCHANGED messages
    /\ UNCHANGED <<sessions, searchLogs, settings, store, others, lookup>>

\* views.py:305-309: the count query and the title set on the session object.
DeriveTitle(c) ==
    /\ calls[c].pc = "count_user"
    /\ calls' = [calls EXCEPT ![c].pc = "save_session",
            ![c].session.title =
                IF UserMessageCount(messages, calls[c].sid) = 1
                THEN AutoTitle(calls[c].user_message) ELSE @]
    /\ UNCHANGED <<sessions, messages, searchLogs, settings, store, others, lookup>>

\* views.py:311-326: session.save() writes every field of the session object
\* this call read at views.py:264.
SaveSession(c) ==
    /\ calls[c].pc = "save_session"
    /\ sessions' = [sessions EXCEPT ![calls[c].sid] = calls[c].session]
    /\ calls' = [calls EXCEPT ![c] = Finish(@, "Success")]
    /\ UNCHANGED <<messages, searchLogs, settings, store, others, lookup>>

DatabasePcs ==
    {"save_user", "log_search", "generate", "save_assistant", "count_user", "save_session"}

\* views.py:330-331: a database operation of the call raises; the handler
\* answers 500 and what the call wrote before stays written.
DatabaseError(c) ==
    /\ calls[c].pc \in DatabasePcs
    /\ calls' = [calls EXCEPT ![c] = [Finish(@, "ServerError") EXCEPT !.fault = TRUE]]
    /\ UNCHANGED <<sessions, messages, searchLogs, settings, store, others, lookup>>

\* ------------------------------------------------- the other session views

\* A handled request of another session view: the view, the caller, the
\* session id it named or created (0: none), the result, the messages the
\* response showed, and the identity the caller has after the response
\* (request.user and the cookies, with any cookie the response set).
ViewRecord(op, caller, sid, result, shown, after) ==
    [op |-> op, caller |-> caller, sid |-> sid, result |-> result,
     shown |-> shown, after |-> after]

RenamedTitle == <<"M", "y", " ", "c", "h", "a", "t">>

\* views.py:228-247, as one step: the lookup (deleted sessions included),
\* the ownership check, the new title and session.save().
chat_session_rename(caller, sid, title) ==
    LET result ==
            IF sid \notin DOMAIN sessions THEN "SessionNotFound"
            ELSE IF AccessDenied(caller, sessions[sid]) THEN "Unauthorized"
            ELSE "Success"
    IN /\ others' = Append(others,
            ViewRecord("rename", caller, sid, result, <<>>, caller))
       /\ sessions' = IF result = "Success"
                      THEN [sessions EXCEPT ![sid].title = title]
                      ELSE sessions
       /\ UNCHANGED <<messages, searchLogs, settings, store, calls, lookup>>

\* views.py:206-224, as one step: the lookup (deleted sessions included),
\* the ownership check, is_active = False and session.save().
chat_session_delete(caller, sid) ==
    LET result ==
            IF sid \notin DOMAIN sessions THEN "SessionNotFound"
            ELSE IF AccessDenied(caller, sessions[sid]) THEN "Unauthorized"
            ELSE "Success"
    IN /\ others' = Append(others,
            ViewRecord("delete", caller, sid, result, <<>>, caller))
       /\ sessions' = IF result = "Success"
                      THEN [sessions EXCEPT ![sid].is_active = FALSE]
                      ELSE sessions
       /\ UNCHANGED <<messages, searchLogs, settings, store, calls, lookup>>

\* Message.objects.filter(session=session), as the dicts of views.py:185-190.
messages_data(msgs, sid) ==
    LET rows == SelectSeq(msgs, LAMBDA m : m.session = sid)
    IN [i \in 1..Len(rows) |-> [role |-> rows[i].role, content |-> rows[i].content]]

\* views.py:170-202: the lookup among the active sessions, the ownership
\* check and the messages of the session.
chat_session_detail(caller, sid) ==
    LET found == sid \in DOMAIN sessions /\ sessions[sid].is_active
        result ==
            IF ~found THEN "SessionNotFound"
            ELSE IF AccessDenied(caller, sessions[sid]) THEN "Unauthorized"
            ELSE "Success"
    IN /\ others' = Append(others,
            ViewRecord("detail", caller, sid, result,
                       IF result = "Success" THEN messages_data(messages, sid) ELSE <<>>,
                       caller))
       /\ UNCHANGED <<sessions, messages, searchLogs, settings, store, calls, lookup>>

\* str(uuid.uuid4()): a token no session carries.  Two calls never return
\* the same one.
FreshTokens == <<"n1", "n2", "n3", "n4">>

TokenInUse(token) == \E i \in DOMAIN sessions : sessions[i].session_token = token

TokensLeft == {k \in 1..Len(FreshTokens) : ~TokenInUse(FreshTokens[k])}

NewToken == FreshTokens[CHOOSE k \in TokensLeft : \A l \in TokensLeft : k <= l]

\* views.py:126-144.  An authenticated caller gets a session of their own.
\* A guest gets a session carrying the token of their cookie or, without a
\* cookie, a new token; the response sets no cookie and does not hold the
\* token.  ChatSession.session_token is unique (models.py:37): the INSERT of
\* a token another row carries raises IntegrityError, which the view does
\* not catch, and the request ends in a 500 response.
chat_session_create(caller, title) ==
    LET session_token ==
            IF caller.user # None THEN None
            ELSE IF caller.cookie # None THEN caller.cookie ELSE NewToken
        duplicate == session_token # None /\ TokenInUse(session_token)
        row == [user |-> caller.user, session_token |-> session_token,
                title |-> title, is_active |-> TRUE]
    IN /\ caller.user = None /\ caller.cookie = None => TokensLeft # {}
       /\ IF duplicate
          THEN /\ others' = Append(others,
                     ViewRecord("create", caller, 0, "ServerError", <<>>, caller))
               /\ UNCHANGED sessions
          ELSE /\ sessions' = Append(sessions, row)
               /\ others' = Append(others,
                     ViewRecord("create", caller, Len(sessions) + 1, "Success", <<>>, caller))
       /\ UNCHANGED <<messages, searchLogs, settings, store, calls, lookup>>

\* views.py:49-63: a session with a new token; the response sets the
\* guest_session_token cookie to it.
guest_session_create(caller) ==
    /\ TokensLeft # {}
    /\ sessions' = Append(sessions,
            [user |-> None, session_token |-> NewToken,
             title |-> NewGuestChat, is_active |-> TRUE])
    /\ others' = Append(others,
            ViewRecord("guest_create", caller, Len(sessions) + 1, "Success", <<>>,
                       [user |-> caller.user, cookie |-> NewToken]))
    /\ UNCHANGED <<messages, searchLogs, settings, store, calls, lookup>>

\* ------------------------------------- the retriever and the responder
\* search_knowledge_base and generate_fallback_response are functions of
\* the query and the tables alone.  A lookup applies them outside a chat
\* request: first the retriever, then the template responder on the context
\* it returned.

NoLookup == [pc |-> "idle", query |-> <<>>, context |-> NoKeys, reply |-> <<>>]

\* views.py:351-400
Search(query) ==
    /\ lookup.pc = "idle"
    /\ \E context \in search_knowledge_base(store, query) :
        lookup' = [pc |-> "searched", query |-> query, context |-> context,
                   reply |-> <<>>]
    /\ UNCHANGED <<sessions, messages, searchLogs, settings, store, calls, others>>

\* views.py:460-525
Respond ==
    /\ lookup.pc = "searched"
    /\ lookup' = [lookup EXCEPT !.pc = "responded",
            !.reply = generate_fallback_response(lookup.query, lookup.context)]
    /\ UNCHANGED <<sessions, messages, searchLogs, settings, store, calls, others>>

\* ------------------------------------------------------------ behaviours

\* A database holding a session of user u1 (chat_session_create), a guest
\* session with token t1 (guest_session_create) and a session of user u2
\* that chat_session_delete deactivated.
InitialSessions == <<
    [user |-> "u1", session_token |-> None, title |-> NewChat, is_active |-> TRUE],
    [user |-> None, session_token |-> "t1", title |-> NewGuestChat, is_active |-> TRUE],
    [user |-> "u2", session_token |-> None, title |-> NewChat, is_active |-> FALSE] >>

\* Session ids a request can name: the existing ones and one that is none.
SessionIds == 1..(Len(InitialSessions) + 1)

Owner1 == [user |-> "u1", cookie |-> None]
NoCookie == [user |-> None, cookie |-> None]

\* The chat_send_message requests of Spec: every caller against every
\* session id with one message, and the empty, the whitespace-only and a
\* padded message against the session of u1.
SendRequests ==
    {[caller |-> caller, sid |-> sid, raw |-> <<"F", "e", "e", "s", "?">>] :
        caller \in Callers, sid \in SessionIds}
    \cup {[caller |-> caller, sid |-> 1, raw |-> raw] :
        caller \in {Owner1, NoCookie}, raw \in { <<>>, <<" ", "\n">>, <<" ", "h", "i", " ">> }}

Init ==
    /\ sessions = InitialSessions
    /\ messages = <<>>
    /\ searchLogs = <<>>
    /\ settings \in {SeededSettings, NoSettings}
    /\ store = SampleStore
    /\ calls = <<>>
    /\ others = <<>>
    /\ lookup = NoLookup

Renames == Len(SelectSeq(others, LAMBDA o : o.op = "rename"))

\* No chat_send_message call is being handled.
Idle == \A c \in DOMAIN calls : ~InFlight(c)

\* Spec: the requests of every caller, for every session id and message,
\* handled one at a time.
Next ==
    \/ \E r \in SendRequests :
        Idle /\ Len(calls) < MaxCalls /\ Validate(r.caller, r.sid, r.raw)
    \/ \E c \in DOMAIN calls : SaveUserMessage(c)
    \/ \E c \in DOMAIN calls : LogSearch(c)
    \/ \E c \in DOMAIN calls : Generate(c)
    \/ \E c \in DOMAIN calls, outcome \in ServiceOutcomes : ServiceReply(c, outcome)
    \/ \E c \in DOMAIN calls : SaveAssistantMessage(c)
    \/ \E c \in DOMAIN calls : DeriveTitle(c)
    \/ \E c \in DOMAIN calls : SaveSession(c)
    \/ \E c \in DOMAIN calls : DatabaseError(c)

Spec == Init /\ [][Next]_vars

\* A step of the handler of call c that the server itself takes.  The
\* return of requests.post is not one: views.py:432-445 passes no timeout,
\* so only the generation service or the network ends that call.
HandlerStep(c) ==
    /\ c \in DOMAIN calls
    /\ \/ SaveUserMessage(c)
       \/ LogSearch(c)
       \/ Generate(c)
       \/ SaveAssistantMessage(c)
       \/ DeriveTitle(c)
       \/ SaveSession(c)

\* FairSpec: Spec with a server that keeps running every handler.
FairSpec == Spec /\ \A c \in 1..MaxCalls : WF_vars(HandlerStep(c))

\* SeqSpec: u1 sends message after message in the session of u1; the
\* credential is configured and the generation service answers with a text.
SeqMessages == { <<" ", "h", "i", " ">>, <<"F", "e", "e", "s", "?">> }

TextOutcomes == {o \in ServiceOutcomes : ~o.raised /\ o.body = "text"}

SeqNext ==
    \/ \E raw \in SeqMessages :
        Idle /\ Len(calls) < SeqCalls /\ Validate(Owner1, 1, raw)
    \/ \E c \in DOMAIN calls : SaveUserMessage(c)
    \/ \E c \in DOMAIN calls : LogSearch(c)
    \/ \E c \in DOMAIN calls : Generate(c)
    \/ \E c \in DOMAIN calls, outcome \in TextOutcomes : ServiceReply(c, outcome)
    \/ \E c \in DOMAIN calls : SaveAssistantMessage(c)
    \/ \E c \in DOMAIN calls : DeriveTitle(c)
    \/ \E c \in DOMAIN calls : SaveSession(c)

SeqInit == Init /\ settings = SeededSettings

SeqSpec == SeqInit /\ [][SeqNext]_vars

\* HistorySpec: SeqSpec on a database in which the guest session already
\* holds a conversation.
GuestTurns == <<
    [session |-> 2, role |-> "user", content |-> <<"E", "x", "a", "m", "s", "?">>, call |-> 0],
    [session |-> 2, role |-> "assistant", content |-> DefaultResponse, call |-> 0] >>

HistoryInit ==
    /\ sessions = [InitialSessions EXCEPT ![2].title = <<"E", "x", "a", "m", "s", "?">>]
    /\ messages = GuestTurns
    /\ searchLogs = <<[user |-> None, session |-> 2, query |-> <<"E", "x", "a", "m", "s", "?">>, call |-> 0]>>
    /\ settings = SeededSettings
    /\ store = SampleStore
    /\ calls = <<>>
    /\ others = <<>>
    /\ lookup = NoLookup

HistorySpec == HistoryInit /\ [][SeqNext]_vars

\* ConcSpec: u1 sends messages in the session of u1 from several tabs at
\* once and renames the session; every request has a server thread of its
\* own, and the threads interleave at their database operations.
ConcOutcomes == {o \in ServiceOutcomes : o.raised \/ o.body = "text"}

ConcNext ==
    \/ Len(calls) < ConcCalls /\ Validate(Owner1, 1, <<"F", "e", "e", "s", "?">>)
    \/ \E c \in DOMAIN calls : SaveUserMessage(c)
    \/ \E c \in DOMAIN calls : LogSearch(c)
    \/ \E c \in DOMAIN calls : Generate(c)
    \/ \E c \in DOMAIN calls, outcome \in ConcOutcomes : ServiceReply(c, outcome)
    \/ \E c \in DOMAIN calls : SaveAssistantMessage(c)
    \/ \E c \in DOMAIN calls : DeriveTitle(c)
    \/ \E c \in DOMAIN calls : SaveSession(c)
    \/ \E c \in DOMAIN calls : DatabaseError(c)
    \/ Renames < MaxRenames /\ chat_session_rename(Owner1, 1, RenamedTitle)

ConcSpec == Init /\ [][ConcNext]_vars

\* ComposeSpec: u1 sends the same message in the session of u1 from several
\* tabs at once; the credential is configured and the generation service
\* answers with a text.
ComposeNext ==
    \/ Len(calls) < ComposeCalls /\ Validate(Owner1, 1, <<"F", "e", "e", "s", "?">>)
    \/ \E c \in DOMAIN calls : SaveUserMessage(c)
    \/ \E c \in DOMAIN calls : LogSearch(c)
    \/ \E c \in DOMAIN calls : Generate(c)
    \/ \E c \in DOMAIN calls, outcome \in TextOutcomes : ServiceReply(c, outcome)
    \/ \E c \in DOMAIN calls : SaveAssistantMessage(c)
    \/ \E c \in DOMAIN calls : DeriveTitle(c)
    \/ \E c \in DOMAIN calls : SaveSession(c)

ComposeSpec == SeqInit /\ [][ComposeNext]_vars

\* TitleSpec: u1 sends messages of 1 to 60 characters, one of them padded
\* with whitespace, in the session of u1, one at a time.
Letters(n) == [i \in 1..n |-> LowerCase[((i - 1) % Len(LowerCase)) + 1]]

TitleMessages ==
    {Letters(n) : n \in {1, 49, 50, 51, 60}}
    \cup { <<" ">> \o Letters(50) \o <<"\n">> }

TitleNext ==
    \/ \E raw \in TitleMessages :
        Idle /\ Len(calls) < TitleCalls /\ Validate(Owner1, 1, raw)
    \/ \E c \in DOMAIN calls : SaveUserMessage(c)
    \/ \E c \in DOMAIN calls : LogSearch(c)
    \/ \E c \in DOMAIN calls : Generate(c)
    \/ \E c \in DOMAIN calls, outcome \in TextOutcomes : ServiceReply(c, outcome)
    \/ \E c \in DOMAIN calls : SaveAssistantMessage(c)
    \/ \E c \in DOMAIN calls : DeriveTitle(c)
    \/ \E c \in DOMAIN calls : SaveSession(c)

TitleSpec == Init /\ [][TitleNext]_vars

\* SessionSpec: sessions are created, read, renamed and deleted by every
\* kind of caller while a chat_send_message request is handled, each
\* request in a server thread of its own.  No credential is configured, so
\* the generator answers from the templates.
Guest1 == [user |-> None, cookie |-> "t1"]

\* The callers that create sessions: a user, a guest whose cookie carries
\* the token of a session, a guest without a cookie.
Creators == {Owner1, Guest1, NoCookie}

\* The sessions this behaviour created, with the identity of their creator
\* after the creation response.
Created ==
    {[caller |-> others[k].after, sid |-> others[k].sid] :
        k \in {j \in 1..Len(others) :
                  /\ others[j].op \in {"create", "guest_create"}
                  /\ others[j].result = "Success"}}

SessionInit ==
    /\ sessions = InitialSessions
    /\ messages = <<>>
    /\ searchLogs = <<>>
    /\ settings = NoSettings
    /\ store = SampleStore
    /\ calls = <<>>
    /\ others = <<>>
    /\ lookup = NoLookup

SessionNext ==
    \/ \E r \in Created \cup {[caller |-> Owner1, sid |-> 1]} :
        Len(calls) < SessionCalls /\ Validate(r.caller, r.sid, <<"F", "e", "e", "s", "?">>)
    \/ \E c \in DOMAIN calls : SaveUserMessage(c)
    \/ \E c \in DOMAIN calls : LogSearch(c)
    \/ \E c \in DOMAIN calls : Generate(c)
    \/ \E c \in DOMAIN calls : SaveAssistantMessage(c)
    \/ \E c \in DOMAIN calls : DeriveTitle(c)
    \/ \E c \in DOMAIN calls : SaveSession(c)
    \/ \E caller \in Creators :
        Len(others) < MaxViews /\ chat_session_create(caller, NewChat)
    \/ Len(others) < MaxViews /\ guest_session_create(NoCookie)
    \/ \E caller \in Callers, sid \in 1..(Len(sessions) + 1) :
        Len(others) < MaxViews /\ chat_session_detail(caller, sid)
    \/ \E caller \in Callers, sid \in 1..(Len(sessions) + 1) :
        Len(others) < MaxViews /\ chat_session_delete(caller, sid)
    \/ \E caller \in Callers, sid \in 1..(Len(sessions) + 1) :
        Len(others) < MaxViews /\ chat_session_rename(caller, sid, RenamedTitle)

SessionSpec == SessionInit /\ [][SessionNext]_vars

\* LookupSpec: one lookup, for each of the stores and each of the queries.
Queries == {
    <<>>, <<"f", "e", "e">>, <<"F", "E", "E">>, <<"H", "o", "w", " ", "d", "o", " ", "I", " ", "p", "a", "y", " ", "f", "e", "e", "s", "?">>, <<"W", "h", "a", "t", " ", "d", "o", "e", "s", " ", "i", "t", " ", "c", "o", "s", "t", "?">>,
    <<"P", "a", "y", "m", "e", "n", "t">>, <<"e", "x", "a", "m", " ", "f", "e", "e">>, <<"f", "e", "e", " ", "e", "x", "a", "m", " ", "v", "c">>, <<"S", "u", "p", "p", "l", "e", "m", "e", "n", "t", "a", "r", "y", "?">>, <<"W", "h", "o", " ", "i", "s", " ", "t", "h", "e", " ", "V", "C", "?">>,
    <<"v", "i", "c", "e", " ", "c", "h", "a", "n", "c", "e", "l", "l", "o", "r">>, <<"d", "e", "a", "n">>, <<"h", "o", "s", "t", "e", "l">>, <<"s", "p", "o", "r", "t">>, <<"W", "h", "e", "r", "e", " ", "i", "s", " ", "t", "h", "e", " ", "l", "i", "b", "r", "a", "r", "y", "?">>,
    <<"p", "a", "y", "b", "i", "l", "l">>, <<"s", "e", "m", "e", "s", "t", "e", "r">>, <<"d", "e", "f", "e", "r">>, <<"o", "f", "f", "i", "c", "e">>, <<"h", "e", "l", "l", "o">> }

LookupInit ==
    /\ sessions = InitialSessions
    /\ messages = <<>>
    /\ searchLogs = <<>>
    /\ settings = NoSettings
    /\ store \in Stores
    /\ calls = <<>>
    /\ others = <<>>
    /\ lookup = NoLookup

LookupNext ==
    \/ \E query \in Queries : Search(query)
    \/ Respond

LookupSpec == LookupInit /\ [][LookupNext]_vars

\* ------------------------------------------------------------ properties

\* The messages and search logs call c wrote.
MessagesOf(c) == {i \in 1..Len(messages) : messages[i].call = c}
LogsOf(c) == {i \in 1..Len(searchLogs) : searchLogs[i].call = c}

\* The message of a request is empty or whitespace-only.
IsBlank(raw) == \A i \in 1..Len(raw) : raw[i] \in Whitespace

\* The caller owns the session: the authenticated user the session belongs
\* to, or a guest whose cookie carries the session's token.
Owns(caller, session) ==
    \/ caller.user # None /\ session.user = caller.user
    \/ caller.user = None /\ caller.cookie # None /\ session.session_token = caller.cookie

ValidationErrors == {"EmptyMessage", "SessionNotFound", "Unauthorized"}

\* The call passed the empty check, the session lookup and the ownership check.
PassedValidation(c) == calls[c].result \notin ValidationErrors

\* C1: a chat_send_message call with a message, on an active session the
\* caller does not own, is rejected as Unauthorized and writes no message
\* and no search log.
C1_NonOwnerRejected ==
    \A c \in DOMAIN calls :
        LET call == calls[c]
        IN (/\ ~IsBlank(call.raw)
            /\ call.sid \in DOMAIN sessions
            /\ sessions[call.sid].is_active
            /\ ~Owns(call.caller, sessions[call.sid]))
           => /\ call.pc = "done"
              /\ call.result = "Unauthorized"
              /\ MessagesOf(c) = {}
              /\ LogsOf(c) = {}

\* C2: a chat_send_message call whose message is empty or whitespace-only
\* ends at once with EmptyMessage, and the step that handles it leaves
\* every message, search log and session as it was.
C2_BlankMessageStep ==
    (/\ Len(calls') = Len(calls) + 1
     /\ IsBlank(calls'[Len(calls')].raw))
    => /\ calls'[Len(calls')].pc = "done"
       /\ calls'[Len(calls')].result = "EmptyMessage"
       /\ UNCHANGED <<messages, searchLogs, sessions>>

C2_EmptyMessageNoWrites == [][C2_BlankMessageStep]_vars

\* C2 witness: a whitespace-only message was rejected in a session that
\* already holds turns.
C2_Witness ==
    /\ Len(messages) > 0
    /\ \E c \in DOMAIN calls :
        /\ calls[c].raw # <<>>
        /\ IsBlank(calls[c].raw)
        /\ calls[c].result = "EmptyMessage"
        /\ messages[1].session = calls[c].sid

\* C3: once a call has finished, the session holds both the user turn and
\* the assistant turn of the call, or neither.
C3_NoPartialTurnPair ==
    \A c \in DOMAIN calls :
        calls[c].pc = "done" => Cardinality(MessagesOf(c)) \in {0, 2}

\* rows[-n:]
LastTurns(rows, n) ==
    SubSeq(rows, IF Len(rows) > n THEN Len(rows) - n + 1 ELSE 1, Len(rows))

\* The turns of call c's session that earlier calls persisted, as dicts.
PriorTurns(c) ==
    LET rows == SelectSeq(messages, LAMBDA m : m.session = calls[c].sid /\ m.call < c)
    IN [i \in 1..Len(rows) |-> [role |-> rows[i].role, content |-> rows[i].content]]

\* C4: the generation request of the last of SeqCalls sequential calls in
\* one session carries the 10 most recent turns persisted before the call,
\* oldest first.
C4_HistoryIsMostRecentTen ==
    \A c \in DOMAIN calls :
        (c = SeqCalls /\ calls[c].pc = "waiting")
        => calls[c].history = LastTurns(PriorTurns(c), HistoryLimit)

\* C5: no turn of another call lies between the user turn and the
\* assistant turn of a call.
C5_NoInterleavedPairs ==
    \A i, j, k \in 1..Len(messages) :
        (/\ i < j /\ j < k
         /\ messages[i].call = messages[k].call
         /\ messages[i].session = messages[j].session)
        => messages[j].call = messages[i].call

\* The requests.post call returned a non-success status, raised, or
\* returned a body that is not the expected JSON.
FailedOutcome(outcome) ==
    outcome.raised \/ outcome.status # StatusOk \/ outcome.body = "malformed"

\* C6: with a credential configured, a failed external call makes the
\* generator return the Template Responder's output for the query and context.
C6_FailureRoutedToTemplate ==
    \A c \in DOMAIN calls :
        (/\ calls[c].pc = "save_assistant"
         /\ calls[c].requests > 0
         /\ FailedOutcome(calls[c].outcome))
        => calls[c].response =
              PyStr(generate_fallback_response(calls[c].user_message, calls[c].context))

\* C7: without an ANTHROPIC_API_KEY row the generator returns
\* generate_fallback_response(query, context) for a retrieved context, the
\* assistant turn holds that text, and no request goes to the generation service.
C7_MissingKeyFallsBack ==
    ApiKeyName \notin DOMAIN settings =>
        \A c \in DOMAIN calls :
            /\ calls[c].requests = 0
            /\ calls[c].pc # "waiting"
            /\ calls[c].pc = "save_assistant" =>
                /\ calls[c].context \in search_knowledge_base(store, calls[c].user_message)
                /\ calls[c].response =
                     PyStr(generate_fallback_response(calls[c].user_message, calls[c].context))
            /\ \A i \in MessagesOf(c) :
                messages[i].role = "assistant" =>
                    \E context \in search_knowledge_base(store, calls[c].user_message) :
                        messages[i].content =
                            generate_fallback_response(calls[c].user_message, context)

\* C7 witness: without a credential, one call was answered from the fees
\* template and another from the default message.
C7_Witness ==
    /\ ApiKeyName \notin DOMAIN settings
    /\ \E i, j \in 1..Len(messages) :
        /\ messages[i].role = "assistant"
        /\ messages[i].content = FeesTemplate(SampleBankAccounts[1])
        /\ messages[j].role = "assistant"
        /\ messages[j].content = DefaultResponse

\* C8: the generator returns a string whatever the external call does, and
\* a call that passed validation and met no database error ends in success
\* with its assistant turn persisted.
C8_GeneratorNeverRaises ==
    \A c \in DOMAIN calls :
        /\ calls[c].pc = "save_assistant" => calls[c].response.type = "str"
        /\ (calls[c].pc = "done" /\ PassedValidation(c) /\ ~calls[c].fault)
           => /\ calls[c].result = "Success"
              /\ \E i \in MessagesOf(c) : messages[i].role = "assistant"

\* C9: every call that passed validation eventually returns a response.
C9_ValidatedCallCompletes ==
    \A c \in 1..MaxCalls :
        (c \in DOMAIN calls /\ InFlight(c)) ~> (c \in DOMAIN calls /\ ~InFlight(c))

\* The call that persisted the first user message of session sid has ended
\* in success.
FirstMessageHandled(sid) ==
    \E i \in 1..Len(messages) :
        /\ messages[i].session = sid
        /\ messages[i].role = "user"
        /\ \A j \in 1..(i - 1) : ~(messages[j].session = sid /\ messages[j].role = "user")
        /\ calls[messages[i].call].pc = "done"
        /\ calls[messages[i].call].result = "Success"

\* C10: once the first user message of a session has been handled, no step
\* of a chat_send_message call changes the session's title.
C10_SendKeepsTitle ==
    (others' = others) =>
        \A sid \in DOMAIN sessions :
            FirstMessageHandled(sid) => sessions'[sid].title = sessions[sid].title

C10_TitleFromFirstMessageOnly == [][C10_SendKeepsTitle]_vars

\* ---------------------------------------- properties of a lookup

\* The retriever has returned the context of the lookup.
Searched == lookup.pc \in {"searched", "responded"}

\* The template responder has returned the reply of the lookup.
Responded == lookup.pc = "responded"

\* The text sub occurs in the text, letter case aside.
Occurs(text, sub) ==
    \E i \in 1..(Len(text) - Len(sub) + 1) :
        Lower(SubSeq(text, i, i + Len(sub) - 1)) = Lower(sub)

\* The rows of the knowledge table, and of the FAQ table, that a returned
\* {question, answer} item shows.
KnowledgeRowsOf(item) ==
    {i \in 1..Len(store.knowledge) :
        /\ store.knowledge[i].question = item.question
        /\ store.knowledge[i].answer = item.answer}

FaqRowsOf(item) ==
    {i \in 1..Len(store.faqs) :
        /\ store.faqs[i].question = item.question
        /\ store.faqs[i].answer = item.answer}

ReferenceKeys ==
    {"financial_info", "bank_accounts", "exam_info", "academic_years",
     "discontinuation", "officials", "offices"}

\* C11: every knowledge item, FAQ and reference record in the context the
\* retriever returns is a row with is_active = true.
C11_NoInactiveItems ==
    Searched =>
        /\ \A k \in 1..Len(lookup.context.knowledge_base) :
              LET rows == KnowledgeRowsOf(lookup.context.knowledge_base[k])
              IN rows # {} /\ \A i \in rows : store.knowledge[i].is_active
        /\ \A k \in 1..Len(lookup.context.faqs) :
              LET rows == FaqRowsOf(lookup.context.faqs[k])
              IN rows # {} /\ \A i \in rows : store.faqs[i].is_active
        /\ \A key \in ReferenceKeys \cap DOMAIN lookup.context :
              \A k \in 1..Len(lookup.context[key]) :
                  /\ lookup.context[key][k].is_active
                  /\ \E i \in 1..Len(store[key]) : store[key][i] = lookup.context[key][k]

\* C11 witness: a query that a retired knowledge row and a retired FAQ hold
\* and that triggers the fees topic, on a store with a closed bank account;
\* the context has knowledge items, FAQs and bank accounts.
C11_Witness ==
    /\ Searched
    /\ \E i \in 1..Len(store.knowledge) :
        ~store.knowledge[i].is_active /\ Occurs(store.knowledge[i].question, lookup.query)
    /\ \E i \in 1..Len(store.faqs) :
        ~store.faqs[i].is_active /\ Occurs(store.faqs[i].question, lookup.query)
    /\ \E i \in 1..Len(store.bank_accounts) : ~store.bank_accounts[i].is_active
    /\ lookup.context.knowledge_base # <<>>
    /\ lookup.context.faqs # <<>>
    /\ "bank_accounts" \in DOMAIN lookup.context
    /\ lookup.context["bank_accounts"] # <<>>

\* The rows of the knowledge table, and of the FAQ table, that the context
\* shows, in the order of the context.
ReturnedKnowledge ==
    [k \in 1..Len(lookup.context.knowledge_base) |->
        CHOOSE i \in KnowledgeRowsOf(lookup.context.knowledge_base[k]) : TRUE]

ReturnedFaqs ==
    [k \in 1..Len(lookup.context.faqs) |->
        CHOOSE i \in FaqRowsOf(lookup.context.faqs[k]) : TRUE]

\* The active rows that hold the query in a searched field.
MatchingKnowledge ==
    {i \in 1..Len(store.knowledge) :
        /\ store.knowledge[i].is_active
        /\ \/ Occurs(store.knowledge[i].question, lookup.query)
           \/ Occurs(store.knowledge[i].answer, lookup.query)
           \/ Occurs(store.knowledge[i].keywords, lookup.query)}

MatchingFaqs ==
    {i \in 1..Len(store.faqs) :
        /\ store.faqs[i].is_active
        /\ \/ Occurs(store.faqs[i].question, lookup.query)
           \/ Occurs(store.faqs[i].answer, lookup.query)}

\* The rows that match and were not returned.
LeftOut(matching, returned) ==
    {i \in matching : \A k \in 1..Len(returned) : returned[k] # i}

\* Each row at most once.
NoRepeats(returned) ==
    \A k, l \in 1..Len(returned) : k # l => returned[k] # returned[l]

\* C12: the knowledge matches returned are at most 5 matching rows, in
\* non-increasing priority, none left out when fewer than 5 are returned, and
\* no row left out has a strictly higher priority than a returned one; the
\* FAQ matches returned are at most 3 matching rows, lower `order` first,
\* none left out when fewer than 3 are returned, and no row left out has a
\* strictly lower `order` than a returned one.
C12_RankedAndTruncated ==
    Searched =>
        LET kb == ReturnedKnowledge
            faq == ReturnedFaqs
        IN /\ Len(kb) <= 5
           /\ NoRepeats(kb)
           /\ \A k \in 1..Len(kb) : kb[k] \in MatchingKnowledge
           /\ LeftOut(MatchingKnowledge, kb) # {} => Len(kb) = 5
           /\ \A k, l \in 1..Len(kb) :
                 k < l => store.knowledge[kb[k]].priority >= store.knowledge[kb[l]].priority
           /\ \A i \in LeftOut(MatchingKnowledge, kb) : \A k \in 1..Len(kb) :
                 store.knowledge[i].priority <= store.knowledge[kb[k]].priority
           /\ Len(faq) <= 3
           /\ NoRepeats(faq)
           /\ \A k \in 1..Len(faq) : faq[k] \in MatchingFaqs
           /\ LeftOut(MatchingFaqs, faq) # {} => Len(faq) = 3
           /\ \A k, l \in 1..Len(faq) :
                 k < l => store.faqs[faq[k]].order <= store.faqs[faq[l]].order
           /\ \A i \in LeftOut(MatchingFaqs, faq) : \A k \in 1..Len(faq) :
                 store.faqs[i].order >= store.faqs[faq[k]].order

\* C12 witness: more than 5 knowledge rows of several priorities and more
\* than 3 FAQs of several orders match; 5 and 3 were returned.
C12_Witness ==
    /\ Searched
    /\ Cardinality(MatchingKnowledge) > 5
    /\ Cardinality(MatchingFaqs) > 3
    /\ Len(lookup.context.knowledge_base) = 5
    /\ Len(lookup.context.faqs) = 3
    /\ \E i, j \in MatchingKnowledge :
          store.knowledge[i].priority # store.knowledge[j].priority
    /\ \E i, j \in MatchingFaqs : store.faqs[i].order # store.faqs[j].order

\* C13: among matching knowledge rows of equal priority, a more recently
\* updated row comes before an older one in the result, and no row left out
\* is more recent than a returned row of its priority.
C13_TiesMostRecentFirst ==
    Searched =>
        LET kb == ReturnedKnowledge
        IN /\ \A k, l \in 1..Len(kb) :
                 (/\ k < l
                  /\ store.knowledge[kb[k]].priority = store.knowledge[kb[l]].priority)
                 => store.knowledge[kb[k]].updated_at >= store.knowledge[kb[l]].updated_at
           /\ \A i \in LeftOut(MatchingKnowledge, kb) : \A k \in 1..Len(kb) :
                 store.knowledge[i].priority = store.knowledge[kb[k]].priority
                 => store.knowledge[i].updated_at <= store.knowledge[kb[k]].updated_at

\* C14: for the empty query the retriever returns no knowledge item, no FAQ
\* and no reference set.
C14_EmptyQueryEmptyResults ==
    (Searched /\ lookup.query = <<>>) =>
        /\ lookup.context.knowledge_base = <<>>
        /\ lookup.context.faqs = <<>>
        /\ DOMAIN lookup.context = {"knowledge_base", "faqs"}

\* C15: every knowledge item returned is a row that holds the query, letter
\* case aside, in its question, its answer or its keywords, and every FAQ
\* returned is a row that holds it in its question or its answer.
C15_ReturnedOnlyIfMatching ==
    Searched =>
        /\ \A k \in 1..Len(lookup.context.knowledge_base) :
              \A i \in KnowledgeRowsOf(lookup.context.knowledge_base[k]) :
                  \/ Occurs(store.knowledge[i].question, lookup.query)
                  \/ Occurs(store.knowledge[i].answer, lookup.query)
                  \/ Occurs(store.knowledge[i].keywords, lookup.query)
        /\ \A k \in 1..Len(lookup.context.faqs) :
              \A i \in FaqRowsOf(lookup.context.faqs[k]) :
                  \/ Occurs(store.faqs[i].question, lookup.query)
                  \/ Occurs(store.faqs[i].answer, lookup.query)

\* C15 witness: an active knowledge row holds the query in its title and in
\* no searched field, and the retriever returned no knowledge item.
C15_Witness ==
    /\ Searched
    /\ lookup.query # <<>>
    /\ \E i \in 1..Len(store.knowledge) :
        /\ store.knowledge[i].is_active
        /\ Occurs(store.knowledge[i].title, lookup.query)
        /\ i \notin MatchingKnowledge
    /\ lookup.context.knowledge_base = <<>>

\* The six topics: the words that trigger each and the context keys it sets.
Topics == {
    [words |-> FeeWords, keys |-> {"financial_info", "bank_accounts"}],
    [words |-> ExamWords, keys |-> {"exam_info"}],
    [words |-> AcademicYearWords, keys |-> {"academic_years"}],
    [words |-> DiscontinuationWords, keys |-> {"discontinuation"}],
    [words |-> OfficialWords, keys |-> {"officials"}],
    [words |-> OfficeWords, keys |-> {"offices"}] }

\* The rows of a table that are active.
ActiveOf(rows) == {rows[i] : i \in {j \in 1..Len(rows) : rows[j].is_active}}

\* The query holds a word of the topic, letter case aside.
Triggers(query, topic) ==
    \E i \in 1..Len(topic.words) : Occurs(query, topic.words[i])

\* C16: for each topic, its reference sets are in the context exactly when
\* the query holds one of its words, letter case aside, and then they hold
\* all active records of the topic and nothing else; the context has no
\* other key than these and the two result lists.
C16_TopicsTriggeredByKeywords ==
    Searched =>
        /\ \A topic \in Topics : \A key \in topic.keys :
              /\ key \in DOMAIN lookup.context <=> Triggers(lookup.query, topic)
              /\ key \in DOMAIN lookup.context =>
                    /\ {lookup.context[key][k] : k \in 1..Len(lookup.context[key])}
                         = ActiveOf(store[key])
                    /\ Len(lookup.context[key]) = Cardinality(ActiveOf(store[key]))
        /\ DOMAIN lookup.context \subseteq {"knowledge_base", "faqs"} \cup ReferenceKeys

\* C16 witness: a query with words of three topics, in capitals among them,
\* on a store with active and retired records: the context holds the sets
\* of these topics and no other.
C16_Witness ==
    /\ Searched
    /\ store = RankedStore
    /\ DOMAIN lookup.context =
          {"knowledge_base", "faqs", "financial_info", "bank_accounts",
           "exam_info", "officials"}
    /\ Len(lookup.context["bank_accounts"]) = 3

\* The query asks about fees, about exams, about the vice chancellor.
FeeAsked(query) == Occurs(query, <<"f", "e", "e">>) \/ Occurs(query, <<"p", "a", "y", "m", "e", "n", "t">>)
ExamAsked(query) == Occurs(query, <<"e", "x", "a", "m">>) \/ Occurs(query, <<"s", "u", "p", "p", "l", "e", "m", "e", "n", "t", "a", "r", "y">>)
VcAsked(query) == Occurs(query, <<"v", "c">>) \/ Occurs(query, <<"v", "i", "c", "e", " ", "c", "h", "a", "n", "c", "e", "l", "l", "o", "r">>)

\* The records the context holds under a key; none when the key is absent.
Records(context, key) == IF key \in DOMAIN context THEN context[key] ELSE <<>>

\* The officials of the context whose position is vc, in its order.
VcOfficials(context) ==
    SelectSeq(Records(context, "officials"), LAMBDA o : o.position = <<"v", "c">>)

\* The rules that apply to the lookup: the query asks and a record is there.
FeeRule == FeeAsked(lookup.query) /\ Records(lookup.context, "bank_accounts") # <<>>
ExamRule == ExamAsked(lookup.query) /\ Records(lookup.context, "exam_info") # <<>>
VcRule == VcAsked(lookup.query) /\ VcOfficials(lookup.context) # <<>>

\* C17: the reply is the template of the first rule that applies, in the
\* order fees, exam, vice chancellor: the fees template of the first bank
\* account, else the exam template of the first exam record, else the
\* official template of the first official whose position is vc; the
\* default message when the query asks about none of them.
C17_FirstApplicableRule ==
    Responded =>
        /\ FeeRule =>
              lookup.reply = FeesTemplate(lookup.context["bank_accounts"][1])
        /\ (ExamRule /\ ~FeeRule) =>
              lookup.reply = ExamTemplate(lookup.context["exam_info"][1])
        /\ (VcRule /\ ~FeeRule /\ ~ExamRule) =>
              lookup.reply = OfficialTemplate(VcOfficials(lookup.context)[1])
        /\ (~FeeAsked(lookup.query) /\ ~ExamAsked(lookup.query) /\ ~VcAsked(lookup.query)) =>
              lookup.reply = DefaultResponse

\* C17 witness: the query asks about fees, exams and the vice chancellor,
\* records exist for all three, the first official of the context is not the
\* vice chancellor, and the reply is the fees template.
C17_Witness ==
    /\ Responded
    /\ FeeRule /\ ExamRule /\ VcRule
    /\ lookup.context["officials"][1].position # <<"v", "c">>
    /\ lookup.reply = FeesTemplate(lookup.context["bank_accounts"][1])

\* What the rules after the fees rule, and after the exam rule, give.
AfterExamRule ==
    IF VcRule THEN OfficialTemplate(VcOfficials(lookup.context)[1]) ELSE DefaultResponse

AfterFeeRule ==
    IF ExamRule THEN ExamTemplate(lookup.context["exam_info"][1]) ELSE AfterExamRule

\* C18: the reply is never empty, and a rule whose word is in the query but
\* which has no record passes the query on to the rules after it, down to
\* the default message.
C18_FallsThroughWithoutRecord ==
    Responded =>
        /\ Len(lookup.reply) > 0
        /\ \A k \in 1..Len(lookup.reply) : lookup.reply[k] # ""
        /\ (FeeAsked(lookup.query) /\ ~FeeRule) => lookup.reply = AfterFeeRule
        /\ (ExamAsked(lookup.query) /\ ~ExamRule /\ ~FeeRule) =>
              lookup.reply = AfterExamRule
        /\ (VcAsked(lookup.query) /\ ~VcRule /\ ~FeeRule /\ ~ExamRule) =>
              lookup.reply = DefaultResponse

\* C18 witness: the query asks about fees, exams and the vice chancellor,
\* the three topics were triggered, there is no bank account, no exam
\* record and no vice chancellor among the officials, and the reply is the
\* default message.
C18_Witness ==
    /\ Responded
    /\ FeeAsked(lookup.query) /\ ExamAsked(lookup.query) /\ VcAsked(lookup.query)
    /\ {"bank_accounts", "exam_info", "officials"} \subseteq DOMAIN lookup.context
    /\ lookup.context["bank_accounts"] = <<>>
    /\ lookup.context["exam_info"] = <<>>
    /\ lookup.context["officials"] # <<>>
    /\ lookup.reply = DefaultResponse

\* C19: for a query that asks about fees, the reply holds the paybill of
\* every active bank account of the store.
C19_ReplyHoldsPaybill ==
    (Responded /\ FeeAsked(lookup.query)) =>
        \A i \in 1..Len(store.bank_accounts) :
            store.bank_accounts[i].is_active =>
                Contains(lookup.reply, store.bank_accounts[i].paybill_number)

\* C20: a chat_send_message call sends at most one request to the
\* generation service; once the request has ended, in failure or not, the
\* call is past the generator and its one request stays the only one.
C20_SingleAttempt ==
    \A c \in DOMAIN calls :
        /\ calls[c].requests <= 1
        /\ Len(calls[c].sent) <= 1
        /\ calls[c].pc = "waiting" => calls[c].requests = 1
        /\ calls[c].outcome # NoOutcome =>
              /\ calls[c].pc \in {"save_assistant", "count_user", "save_session"}
              /\ calls[c].requests = 1

\* C20 witness: the request of a call failed, the call stored an apology as
\* its assistant turn and ended, having sent that one request.
C20_Witness ==
    \E c \in DOMAIN calls :
        /\ calls[c].pc = "done"
        /\ calls[c].result = "Success"
        /\ calls[c].requests = 1
        /\ \E i \in MessagesOf(c) :
            /\ messages[i].role = "assistant"
            /\ messages[i].content \in {ApologyStatus, ApologyException}

\* ------------------------------------ properties of the session views

\* chat_session_delete has succeeded on the session.
Deleted(sid) ==
    \E k \in 1..Len(others) :
        /\ others[k].op = "delete"
        /\ others[k].sid = sid
        /\ others[k].result = "Success"

\* The turns of a session.
TurnsOf(msgs, sid) == SelectSeq(msgs, LAMBDA m : m.session = sid)

\* C21: a chat_send_message call with a message, naming a session id that
\* does not exist or a deleted session, ends at once in SessionNotFound and
\* writes nothing; and no step adds a turn to a session on which
\* chat_session_delete has succeeded.
C21_DeletedSessionStep ==
    /\ (/\ Len(calls') = Len(calls) + 1
        /\ ~IsBlank(calls'[Len(calls')].raw)
        /\ \/ calls'[Len(calls')].sid \notin DOMAIN sessions
           \/ ~sessions[calls'[Len(calls')].sid].is_active)
       => /\ calls'[Len(calls')].pc = "done"
          /\ calls'[Len(calls')].result = "SessionNotFound"
          /\ UNCHANGED <<messages, searchLogs, sessions>>
    /\ \A sid \in DOMAIN sessions :
        Deleted(sid) => TurnsOf(messages', sid) = TurnsOf(messages, sid)

C21_NoTurnAfterDelete == [][C21_DeletedSessionStep]_vars

\* The first user turn of a session.
FirstUserTurn(sid) ==
    LET rows == SelectSeq(messages, LAMBDA m : m.session = sid /\ m.role = "user")
    IN rows[1]

\* C22: once the call that carried the first user turn of a session has
\* succeeded, the title of the session is the text of that turn if it has
\* at most 50 characters, else its first 50 characters followed by "...",
\* and has at most 53 characters.
C22_TitleFromFirstMessage ==
    \A sid \in DOMAIN sessions :
        FirstMessageHandled(sid) =>
            LET text == FirstUserTurn(sid).content
            IN /\ Len(text) <= 50 => sessions[sid].title = text
               /\ Len(text) > 50 =>
                     sessions[sid].title = SubSeq(text, 1, 50) \o <<".", ".", ".">>
               /\ Len(sessions[sid].title) <= 53

\* C22 witness: a first message of more than 50 characters gave a title of
\* 53, and a second message has been handled since.
C22_Witness ==
    /\ FirstMessageHandled(1)
    /\ Len(FirstUserTurn(1).content) > 50
    /\ Len(sessions[1].title) = 53
    /\ \E c \in DOMAIN calls : c > 1 /\ calls[c].result = "Success"

\* ------------------------------------ properties of the handler's steps

\* The turns of each role that call c wrote.
UserTurnsOf(c) == {i \in MessagesOf(c) : messages[i].role = "user"}
AssistantTurnsOf(c) == {i \in MessagesOf(c) : messages[i].role = "assistant"}

\* The retriever has run in call c; the generator has returned in call c.
Retrieved(c) == DOMAIN calls[c].context # {}
Generated(c) == calls[c].pc \in {"save_assistant", "count_user", "save_session"}

\* C23: the steps of a chat_send_message call come in the order ownership
\* check, user turn, search log, retrieval and generation, assistant turn,
\* title and session save: a call past the check is one of an owner the
\* check lets through; nothing is written before the user turn; the
\* retriever runs after the user turn and the search log are written; the
\* assistant turn is written only after the generator has returned, and
\* after the user turn; a successful call has written both, in this order.
C23_StepsInOrder ==
    \A c \in DOMAIN calls :
        LET pc == calls[c].pc
        IN /\ pc # "done" =>
                 /\ calls[c].session.is_active
                 /\ ~AccessDenied(calls[c].caller, calls[c].session)
           /\ pc = "save_user" =>
                 MessagesOf(c) = {} /\ LogsOf(c) = {} /\ ~Retrieved(c)
           /\ pc = "log_search" =>
                 /\ Cardinality(UserTurnsOf(c)) = 1
                 /\ LogsOf(c) = {} /\ ~Retrieved(c)
           /\ pc = "generate" =>
                 /\ Cardinality(UserTurnsOf(c)) = 1
                 /\ Cardinality(LogsOf(c)) = 1
                 /\ ~Retrieved(c) /\ calls[c].requests = 0
           /\ pc = "waiting" =>
                 /\ Retrieved(c)
                 /\ Len(calls[c].sent) = 1
                 /\ calls[c].outcome = NoOutcome
           /\ pc \in {"save_user", "log_search", "generate", "waiting", "save_assistant"} =>
                 AssistantTurnsOf(c) = {}
           /\ Generated(c) =>
                 /\ Retrieved(c)
                 /\ calls[c].requests = 0 <=> calls[c].outcome = NoOutcome
           /\ (pc \in {"count_user", "save_session"}
               \/ (pc = "done" /\ calls[c].result = "Success")) =>
                 /\ Cardinality(UserTurnsOf(c)) = 1
                 /\ Cardinality(AssistantTurnsOf(c)) = 1
                 /\ \A i \in UserTurnsOf(c), j \in AssistantTurnsOf(c) : i < j

\* C23 witness: of two successful calls the second was answered by the
\* generation service, and the four turns lie in the order user,
\* assistant, user, assistant.
C23_Witness ==
    /\ Len(messages) = 4
    /\ \A c \in DOMAIN calls : calls[c].result = "Success"
    /\ \E c \in DOMAIN calls : calls[c].requests = 1
    /\ messages[1].role = "user" /\ messages[2].role = "assistant"
    /\ messages[3].role = "user" /\ messages[4].role = "assistant"

\* The turns of a session as {role, content} dicts, by timestamp.
TurnDicts(sid) ==
    LET rows == TurnsOf(messages, sid)
    IN [i \in 1..Len(rows) |-> [role |-> rows[i].role, content |-> rows[i].content]]

\* The dicts are consecutive turns of the list, in its order.
IsRunOf(dicts, turns) ==
    \E start \in 0..(Len(turns) - Len(dicts)) :
        \A k \in 1..Len(dicts) : dicts[k] = turns[start + k]

\* C24: the turn list of every generation request is at most 10 turns of
\* the request's own session, in ascending timestamp order, followed by
\* the query as the final turn, with role user.
C24_TurnListIsHistoryThenQuery ==
    \A c \in DOMAIN calls :
        calls[c].pc = "waiting" =>
            LET turns == calls[c].sent[1].messages
                history == SubSeq(turns, 1, Len(turns) - 1)
            IN /\ Len(calls[c].sent) = 1
               /\ Len(turns) >= 1
               /\ turns[Len(turns)] = [role |-> "user", content |-> calls[c].user_message]
               /\ Len(history) <= 10
               /\ IsRunOf(history, TurnDicts(calls[c].sid))

\* C24 witness: a request whose history has 10 turns, sent while its
\* session holds more than 10 and another session holds turns as well.
C24_Witness ==
    \E c \in DOMAIN calls :
        /\ calls[c].pc = "waiting"
        /\ Len(calls[c].sent[1].messages) = 11
        /\ Len(TurnDicts(calls[c].sid)) > 10
        /\ \E i \in 1..Len(messages) : messages[i].session # calls[c].sid

\* Call c has composed a prompt and still holds it.
Composed(c) == calls[c].sent # <<>>

C26_HistoryExcludesCurrentTurn ==
    \A c \in DOMAIN calls :
        calls[c].pc = "waiting" =>
            LET turns == calls[c].sent[1].messages
                history == SubSeq(turns, 1, Len(turns) - 1)
            IN /\ turns[Len(turns)] = [role |-> "user", content |-> calls[c].user_message]
               /\ Len(history) <= Len(PriorTurns(c))
               /\ \A k \in 1..Len(history) :
                     \E j \in 1..Len(PriorTurns(c)) : history[k] = PriorTurns(c)[j]

\* The views that read or change one session.
SessionViews == {"detail", "delete", "rename"}

\* C27: a chat_session_detail, chat_session_delete or chat_session_rename
\* request on a session the caller does not own (for chat_session_detail,
\* an active one) is answered Unauthorized, shows no message and leaves
\* every session as it was.
C27_NonOwnerViewStep ==
    (/\ Len(others') = Len(others) + 1
     /\ others'[Len(others')].op \in SessionViews
     /\ others'[Len(others')].sid \in DOMAIN sessions
     /\ ~Owns(others'[Len(others')].caller, sessions[others'[Len(others')].sid])
     /\ others'[Len(others')].op = "detail" =>
            sessions[others'[Len(others')].sid].is_active)
    => /\ others'[Len(others')].result = "Unauthorized"
       /\ others'[Len(others')].shown = <<>>
       /\ sessions' = sessions

C27_ViewsOnlyForOwner == [][C27_NonOwnerViewStep]_vars

\* A chat_send_message call on the session has completed successfully.
SendSucceeded(sid) ==
    \E c \in DOMAIN calls :
        calls[c].sid = sid /\ calls[c].pc = "done" /\ calls[c].result = "Success"

\* The owner renamed the session.
WasRenamed(sid) ==
    \E k \in 1..Len(others) :
        others[k].op = "rename" /\ others[k].sid = sid /\ others[k].result = "Success"

\* C28: once a chat_send_message call on a session has completed
\* successfully, and the session was never renamed, the title of the session
\* is the one derived from the first user message of the session, whether
\* the first messages were sent concurrently or the call of the first
\* message failed after storing its user turn.
C28_TitleDerivedOnceSucceeded ==
    \A sid \in DOMAIN sessions :
        (SendSucceeded(sid) /\ ~WasRenamed(sid)) =>
            sessions[sid].title = AutoTitle(FirstUserTurn(sid).content)

\* The guest of the request holds the token of a session created before
\* the one the request names.
HoldsEarlierToken(o) ==
    /\ o.caller.user = None
    /\ o.caller.cookie # None
    /\ \E sid \in DOMAIN sessions :
          sid # o.sid /\ sessions[sid].session_token = o.caller.cookie

\* C29: every chat_session_create of a guest who already holds the token of
\* a session succeeds and yields a new session that carries that token.
C29_GuestCreatesFurtherSessions ==
    \A k \in 1..Len(others) :
        (others[k].op = "create" /\ HoldsEarlierToken(others[k])) =>
            /\ others[k].result = "Success"
            /\ others[k].sid \in DOMAIN sessions
            /\ sessions[others[k].sid].session_token = others[k].caller.cookie

\* The request created a session.
CreatedSession(o) == o.op \in {"create", "guest_create"} /\ o.result = "Success"

\* C30: a chat_send_message or chat_session_detail on a session made by
\* chat_session_create or guest_session_create, by the creator with the
\* identity and the cookies the creation left them with, is never answered
\* Unauthorized.
C30_CreatorPassesOwnership ==
    \A k \in 1..Len(others) :
        CreatedSession(others[k]) =>
            /\ \A c \in DOMAIN calls :
                  (calls[c].caller = others[k].after /\ calls[c].sid = others[k].sid)
                      => calls[c].result # "Unauthorized"
            /\ \A j \in (k + 1)..Len(others) :
                  (/\ others[j].op = "detail"
                   /\ others[j].caller = others[k].after
                   /\ others[j].sid = others[k].sid)
                      => others[j].result # "Unauthorized"
====
